---- MODULE Spec2Model ----
(***************************************************************************)
(* bookshelf: the library store (four SQL statements against the books     *)
(* table), the library service built on the store interface, and the mock  *)
(* store the service tests use.                                            *)
(***************************************************************************)
EXTENDS Integers, Sequences, FiniteSets, TLC

VARIABLES
    svc,       \* the LibraryService: which store its Store field holds
    db,        \* the database: the books table and its id sequence
    mock,      \* the mockStore of the service tests
    created,   \* history: the books the real store has created, in order
    deleted,   \* history: ids of the rows a DELETE statement has removed
    ret,       \* the last call: its operation, arguments and results
    main,      \* the TestMain of a store test suite: where the process is
    conn,      \* the *sqlx.DB handle the store tests share
    t,         \* the testing.T of the store test that is running
    stmt,      \* a read of the store, statement by statement
    callers    \* the goroutines that call CreateBook on one handle

vars == <<svc, db, mock, created, deleted, ret, main, conn, t, stmt, callers>>

\* what the calls of the service and of the store leave alone
harness == <<main, conn, t, stmt, callers>>

----------------------------------------------------------------------------
(* Bounds of the exploration *)

\* largest value books_id_seq takes
MaxSeq == 2
\* longest CreateBookCalledWith log of one mockStore
MaxCalls == 2

(* Inputs *)

Titles == {"", "Dune", "Emma"}
Authors == {"", "Frank Herbert"}
IDs == 0 .. (MaxSeq + 1)
\* how many rows of a result set are read before it can break
Cuts == 0 .. MaxSeq
\* the ID field of the book handed to the in-place CreateBook
InPlaceIDs == {0, 1}

\* outcomes of one round trip to the database
Faults == {"none", "bad_conn", "canceled"}
\* outcomes of iterating a result set
IterFaults == {"none", "next_err", "scan_err"}
\* the behaviour functions a test gives its mockStore
CreateBookFns == {"nil", "test"}
StoreKinds == {"mock", "db"}

----------------------------------------------------------------------------
(* Values *)

Book(id, title, author) ==
    [isNil |-> FALSE, ID |-> id, Title |-> title, Author |-> author]

NilBook == [isNil |-> TRUE, ID |-> 0, Title |-> "", Author |-> ""]

Slice(elems) == [isNil |-> FALSE, elems |-> elems]

NilSlice == [isNil |-> TRUE, elems |-> <<>>]

\* &AddBookResponse{Book: book}, &GetBookResponse{Book: book}
BookResponse(book) == [isNil |-> FALSE, Book |-> book, Books |-> NilSlice]

\* &GetBooksResponse{Books: books}
BooksResponse(books) == [isNil |-> FALSE, Book |-> NilBook, Books |-> books]

NilResponse == [isNil |-> TRUE, Book |-> NilBook, Books |-> NilSlice]

(* Errors are chains: the wrapping contexts, outermost first, then the cause *)

NoError == <<>>

ErrNoRows == "sql: no rows in result set"
ErrBadConn == "driver: bad connection"
ErrCanceled == "context canceled"
ErrRowsClosed == "sql: Rows are closed"
ErrCheck == "pq: violates check constraint"
ErrUnique == "pq: duplicate key value violates unique constraint"
ErrMockNotImplemented == "mock not implemented"
ErrTODO == "TODO"
ErrTitleBlank == "add book: title can't be blank"
ErrAuthorBlank == "add book: author can't be blank"

\* fmt.Errorf("<msg>: %w", err)
Wrap(msg, err) == <<msg>> \o err

\* the error a failed round trip surfaces
FaultErr(fault) ==
    IF fault = "bad_conn" THEN ErrBadConn ELSE ErrCanceled

----------------------------------------------------------------------------
(* The database: table books and sequence books_id_seq *)

Row(id, title, author) == [id |-> id, title |-> title, author |-> author]

\* mutant: the check on author is missing from the migration
CheckViolation_TitleOnly(title, author) == ~(Len(title) > 0)

\* CHECK (length(title) > 0), CHECK (length(author) > 0)
CheckViolation(title, author) == ~(Len(title) > 0) \/ ~(Len(author) > 0)

\* mutant: the id is computed from the rows present, not from a sequence
Nextval_MaxPlusOne(d) ==
    IF d.books = {} THEN 1
    ELSE (CHOOSE n \in {r.id : r \in d.books} :
              \A r \in d.books : r.id <= n) + 1

\* id BIGSERIAL: DEFAULT nextval('books_id_seq')
Nextval(d) == d.books_id_seq + 1

\* mutant: the table has no CHECK constraints
Insert_NoCheck(d, title, author, fault) ==
    LET id == d.books_id_seq + 1
    IN  IF fault = "none"
            THEN [db |-> [books |-> d.books \cup {[id |-> id, title |-> title,
                                                   author |-> author]},
                          books_id_seq |-> id],
                  id |-> id, err |-> ""]
        ELSE [db |-> d, id |-> 0,
              err |-> IF fault = "bad_conn" THEN ErrBadConn ELSE ErrCanceled]

\* INSERT INTO books (title, author) VALUES ($1, $2) RETURNING id;
\* The default of id is evaluated before the constraints are checked, so a
\* rejected row still consumes a sequence value.
Insert(d, title, author, fault) ==
    LET id == Nextval(d)
        burned == [d EXCEPT !.books_id_seq = id]
        done ==
            IF CheckViolation(title, author)
                THEN [db |-> burned, id |-> 0, err |-> ErrCheck]
            ELSE IF \E r \in d.books : r.id = id
                THEN [db |-> burned, id |-> 0, err |-> ErrUnique]
            ELSE [db |-> [burned EXCEPT
                            !.books = @ \cup {Row(id, title, author)}],
                  id |-> id, err |-> ""]
    IN  IF fault = "none" THEN done
        ELSE [db |-> d, id |-> 0, err |-> FaultErr(fault)]

\* mutant: the DELETE has lost its WHERE clause
Delete_NoWhere(d, id, fault) ==
    LET done == [d EXCEPT !.books = {}]
    IN  IF fault = "none" THEN [db |-> done, err |-> ""]
        ELSE [db |-> d, err |-> FaultErr(fault)]

\* mutant: DELETE FROM books WHERE id <= $1
Delete_UpTo(d, id, fault) ==
    LET done == [d EXCEPT !.books = {r \in @ : r.id > id}]
    IN  IF fault = "none" THEN [db |-> done, err |-> ""]
        ELSE [db |-> d, err |-> FaultErr(fault)]

\* DELETE FROM books WHERE id = $1;
Delete(d, id, fault) ==
    LET done == [d EXCEPT !.books = {r \in @ : r.id # id}]
    IN  IF fault = "none" THEN [db |-> done, err |-> ""]
        ELSE [db |-> d, err |-> FaultErr(fault)]

\* mutant: the statement also draws a value from the sequence
AfterSelect_Nextval(d) == [d EXCEPT !.books_id_seq = Nextval(d)]

\* the database after a SELECT ... FROM books: no row and no sequence value
\* is touched by the two queries of the store
AfterSelect(d) == d

\* SELECT id, title, author FROM books WHERE id = $1;
SelectByID(d, id) == {r \in d.books : r.id = id}

RECURSIVE OrderByIdAsc(_)
OrderByIdAsc(rows) ==
    IF rows = {} THEN <<>>
    ELSE LET first == CHOOSE r \in rows : \A q \in rows : r.id <= q.id
         IN  <<first>> \o OrderByIdAsc(rows \ {first})

RECURSIVE OrderByIdDesc(_)
OrderByIdDesc(rows) ==
    IF rows = {} THEN <<>>
    ELSE LET first == CHOOSE r \in rows : \A q \in rows : r.id >= q.id
         IN  <<first>> \o OrderByIdDesc(rows \ {first})

\* mutant: ORDER BY id DESC
SelectAll_Desc(d) == OrderByIdDesc(d.books)

\* SELECT id, title, author FROM books ORDER BY id ASC;
SelectAll(d) == OrderByIdAsc(d.books)

\* mutant: Scan(&book.ID, &book.Author, &book.Title)
Scan_Swapped(row) ==
    [isNil |-> FALSE, ID |-> row.id, Title |-> row.author,
     Author |-> row.title]

\* Scan(&book.ID, &book.Title, &book.Author) of a row (id, title, author)
Scan(row) == Book(row.id, row.title, row.author)

----------------------------------------------------------------------------
(* library/store: LibraryStore *)

\* CreateBook(ctx, title, author) (*library.Book, error)
LibraryStore_CreateBook(d, title, author, fault) ==
    LET r == Insert(d, title, author, fault)
    IN  IF r.err # ""
            THEN [db |-> r.db, book |-> NilBook,
                  err |-> Wrap("create book", <<r.err>>)]
        ELSE [db |-> r.db, book |-> Book(r.id, title, author), err |-> NoError]

\* mutant: book.Author and book.Title are bound to the wrong parameters
CreateBookInPlace_SwappedArgs(d, book, fault) ==
    LET r == Insert(d, book.Author, book.Title, fault)
    IN  IF r.err # ""
            THEN [db |-> r.db, book |-> book,
                  err |-> Wrap("create book", <<r.err>>)]
        ELSE [db |-> r.db, book |-> [book EXCEPT !.ID = r.id], err |-> NoError]

\* CreateBook(ctx, book *library.Book) error: the id is scanned into book.ID
LibraryStore_CreateBookInPlace(d, book, fault) ==
    LET r == Insert(d, book.Title, book.Author, fault)
    IN  IF r.err # ""
            THEN [db |-> r.db, book |-> book,
                  err |-> Wrap("create book", <<r.err>>)]
        ELSE [db |-> r.db, book |-> [book EXCEPT !.ID = r.id], err |-> NoError]

\* mutant: a DELETE that affected no row is reported as sql.ErrNoRows
DeleteBook_RowsAffected(d, id, fault) ==
    LET r == Delete(d, id, fault)
    IN  IF r.err # ""
            THEN [db |-> r.db, err |-> Wrap("delete book", <<r.err>>)]
        ELSE IF SelectByID(d, id) = {}
            THEN [db |-> r.db, err |-> Wrap("delete book", <<ErrNoRows>>)]
        ELSE [db |-> r.db, err |-> NoError]

\* DeleteBook(ctx, id) error
LibraryStore_DeleteBook(d, id, fault) ==
    LET r == Delete(d, id, fault)
    IN  IF r.err # ""
            THEN [db |-> r.db, err |-> Wrap("delete book", <<r.err>>)]
        ELSE [db |-> r.db, err |-> NoError]

\* mutant: fmt.Errorf("get book by id: %v", err) loses the cause
GetBookByID_Opaque(d, id, fault) ==
    LET rows == SelectByID(d, id)
    IN  IF fault # "none" \/ rows = {}
            THEN [book |-> NilBook, err |-> <<"get book by id">>]
        ELSE [book |-> Scan(CHOOSE r \in rows : TRUE), err |-> NoError]

\* GetBookByID(ctx, id) (*library.Book, error)
LibraryStore_GetBookByID(d, id, fault) ==
    LET rows == SelectByID(d, id)
        err == IF fault # "none" THEN FaultErr(fault)
               ELSE IF rows = {} THEN ErrNoRows
               ELSE ""
    IN  IF err # ""
            THEN [book |-> NilBook, err |-> Wrap("get book by id", <<err>>)]
        ELSE [book |-> Scan(CHOOSE r \in rows : TRUE), err |-> NoError]

\* the loop of GetBooks: rows.Next(), rows.Scan, append. After k rows the
\* result set breaks: with next_err rows.Next() reports false and leaves the
\* cause in rows.Err(); with scan_err rows.Next() reports true and Scan fails.
RECURSIVE ScanLoop(_, _, _, _, _)
ScanLoop(cursor, i, books, iter, k) ==
    IF i > Len(cursor) \/ (iter = "next_err" /\ i > k)
        THEN [books |-> Slice(books), err |-> NoError]
    ELSE IF iter = "scan_err" /\ i > k
        THEN [books |-> NilSlice, err |-> Wrap("get books", <<ErrRowsClosed>>)]
    ELSE ScanLoop(cursor, i + 1, Append(books, Scan(cursor[i])), iter, k)

\* mutant: var books []*library.Book, which stays nil when no row is appended
GetBooks_NilSlice(d, fault, iter, k) ==
    IF fault # "none"
        THEN [books |-> NilSlice, err |-> Wrap("get books", <<FaultErr(fault)>>)]
    ELSE LET r == ScanLoop(SelectAll(d), 1, <<>>, iter, k)
         IN  IF r.err = NoError /\ r.books.elems = <<>>
                 THEN [books |-> NilSlice, err |-> NoError]
             ELSE r

\* GetBooks(ctx) ([]*library.Book, error)
LibraryStore_GetBooks(d, fault, iter, k) ==
    IF fault # "none"
        THEN [books |-> NilSlice, err |-> Wrap("get books", <<FaultErr(fault)>>)]
    ELSE ScanLoop(SelectAll(d), 1, <<>>, iter, k)

----------------------------------------------------------------------------
(* library/service tests: mockStore *)

\* the id the CreateBookFn of the tests returns
MockBookID == 123

\* &mockStore{CreateBookFn: fn}
NewMock(fn) == [CreateBookFn |-> fn, CreateBookCalledWith |-> <<>>]

\* func(_ context.Context, title, author string) (*library.Book, error)
CreateBookFn(fn, title, author) ==
    [book |-> Book(MockBookID, title, author), err |-> NoError]

\* mutant: the entry replaces the log instead of being appended to it
mockStore_CreateBook_Overwrite(ms, title, author) ==
    IF ms.CreateBookFn = "nil"
        THEN [mock |-> ms, book |-> NilBook, err |-> <<ErrMockNotImplemented>>]
    ELSE LET args == [Title |-> title, Author |-> author]
             called == [ms EXCEPT !.CreateBookCalledWith = <<args>>]
             r == CreateBookFn(ms.CreateBookFn, title, author)
         IN  [mock |-> called, book |-> r.book, err |-> r.err]

\* mockStore.CreateBook
mockStore_CreateBook(ms, title, author) ==
    IF ms.CreateBookFn = "nil"
        THEN [mock |-> ms, book |-> NilBook, err |-> <<ErrMockNotImplemented>>]
    ELSE LET args == [Title |-> title, Author |-> author]
             called == [ms EXCEPT !.CreateBookCalledWith = Append(@, args)]
             r == CreateBookFn(ms.CreateBookFn, title, author)
         IN  [mock |-> called, book |-> r.book, err |-> r.err]

\* mockStore.GetBookByID
mockStore_GetBookByID(ms, id) == [book |-> NilBook, err |-> <<ErrTODO>>]

\* mockStore.GetBooks
mockStore_GetBooks(ms) == [books |-> NilSlice, err |-> <<ErrTODO>>]

----------------------------------------------------------------------------
(* library/service: LibraryService over the LibraryStore interface.  *)
(* w is what the service's store can reach: [db, mock].               *)

\* ls.Store.CreateBook(ctx, req.Title, req.Author)
Store_CreateBook(kind, w, title, author, fault) ==
    IF kind = "mock"
        THEN LET r == mockStore_CreateBook(w.mock, title, author)
             IN  [db |-> w.db, mock |-> r.mock, book |-> r.book, err |-> r.err]
    ELSE LET r == LibraryStore_CreateBook(w.db, title, author, fault)
         IN  [db |-> r.db, mock |-> w.mock, book |-> r.book, err |-> r.err]

\* ls.Store.GetBookByID(ctx, req.ID)
Store_GetBookByID(kind, w, id, fault) ==
    IF kind = "mock" THEN mockStore_GetBookByID(w.mock, id)
    ELSE LibraryStore_GetBookByID(w.db, id, fault)

\* ls.Store.GetBooks(ctx)
Store_GetBooks(kind, w, fault, iter, k) ==
    IF kind = "mock" THEN mockStore_GetBooks(w.mock)
    ELSE LibraryStore_GetBooks(w.db, fault, iter, k)

\* mutant: the response is returned without its Book
AddBook_EmptyResponse(kind, w, title, author, fault) ==
    IF title = ""
        THEN [db |-> w.db, mock |-> w.mock, resp |-> NilResponse,
              err |-> <<ErrTitleBlank>>, logged |-> 0, calls |-> 0]
    ELSE IF author = ""
        THEN [db |-> w.db, mock |-> w.mock, resp |-> NilResponse,
              err |-> <<ErrAuthorBlank>>, logged |-> 0, calls |-> 0]
    ELSE LET r == Store_CreateBook(kind, w, title, author, fault)
         IN  IF r.err # NoError
                 THEN [db |-> r.db, mock |-> r.mock, resp |-> NilResponse,
                       err |-> Wrap("add book", r.err), logged |-> 0,
                       calls |-> 1]
             ELSE [db |-> r.db, mock |-> r.mock, resp |-> BookResponse(NilBook),
                   err |-> NoError, logged |-> 1, calls |-> 1]

\* mutant: the check of req.Author is missing
AddBook_NoAuthorCheck(kind, w, title, author, fault) ==
    IF title = ""
        THEN [db |-> w.db, mock |-> w.mock, resp |-> NilResponse,
              err |-> <<ErrTitleBlank>>, logged |-> 0, calls |-> 0]
    ELSE LET r == Store_CreateBook(kind, w, title, author, fault)
         IN  IF r.err # NoError
                 THEN [db |-> r.db, mock |-> r.mock, resp |-> NilResponse,
                       err |-> Wrap("add book", r.err), logged |-> 0,
                       calls |-> 1]
             ELSE [db |-> r.db, mock |-> r.mock, resp |-> BookResponse(r.book),
                   err |-> NoError, logged |-> 1, calls |-> 1]

\* mutant: req.Author and req.Title reach the store in the wrong order
AddBook_SwappedArgs(kind, w, title, author, fault) ==
    IF title = ""
        THEN [db |-> w.db, mock |-> w.mock, resp |-> NilResponse,
              err |-> <<ErrTitleBlank>>, logged |-> 0, calls |-> 0]
    ELSE IF author = ""
        THEN [db |-> w.db, mock |-> w.mock, resp |-> NilResponse,
              err |-> <<ErrAuthorBlank>>, logged |-> 0, calls |-> 0]
    ELSE LET r == Store_CreateBook(kind, w, author, title, fault)
         IN  IF r.err # NoError
                 THEN [db |-> r.db, mock |-> r.mock, resp |-> NilResponse,
                       err |-> Wrap("add book", r.err), logged |-> 0,
                       calls |-> 1]
             ELSE [db |-> r.db, mock |-> r.mock, resp |-> BookResponse(r.book),
                   err |-> NoError, logged |-> 1, calls |-> 1]

\* mutant: the store's error is formatted with %v, its chain is lost
AddBook_OpaqueWrap(kind, w, title, author, fault) ==
    IF title = ""
        THEN [db |-> w.db, mock |-> w.mock, resp |-> NilResponse,
              err |-> <<ErrTitleBlank>>, logged |-> 0, calls |-> 0]
    ELSE IF author = ""
        THEN [db |-> w.db, mock |-> w.mock, resp |-> NilResponse,
              err |-> <<ErrAuthorBlank>>, logged |-> 0, calls |-> 0]
    ELSE LET r == Store_CreateBook(kind, w, title, author, fault)
         IN  IF r.err # NoError
                 THEN [db |-> r.db, mock |-> r.mock, resp |-> NilResponse,
                       err |-> <<"add book">>, logged |-> 0, calls |-> 1]
             ELSE [db |-> r.db, mock |-> r.mock, resp |-> BookResponse(r.book),
                   err |-> NoError, logged |-> 1, calls |-> 1]

\* mutant: a failed create is tried a second time
AddBook_RetryOnce(kind, w, title, author, fault) ==
    IF title = ""
        THEN [db |-> w.db, mock |-> w.mock, resp |-> NilResponse,
              err |-> <<ErrTitleBlank>>, logged |-> 0, calls |-> 0]
    ELSE IF author = ""
        THEN [db |-> w.db, mock |-> w.mock, resp |-> NilResponse,
              err |-> <<ErrAuthorBlank>>, logged |-> 0, calls |-> 0]
    ELSE LET first == Store_CreateBook(kind, w, title, author, fault)
             again == Store_CreateBook(kind,
                                       [db |-> first.db, mock |-> first.mock],
                                       title, author, "none")
             r == IF first.err # NoError THEN again ELSE first
             n == IF first.err # NoError THEN 2 ELSE 1
         IN  IF r.err # NoError
                 THEN [db |-> r.db, mock |-> r.mock, resp |-> NilResponse,
                       err |-> Wrap("add book", r.err), logged |-> 0,
                       calls |-> n]
             ELSE [db |-> r.db, mock |-> r.mock, resp |-> BookResponse(r.book),
                   err |-> NoError, logged |-> 1, calls |-> n]

\* mutant: the event is logged before the store is called
AddBook_LogFirst(kind, w, title, author, fault) ==
    IF title = ""
        THEN [db |-> w.db, mock |-> w.mock, resp |-> NilResponse,
              err |-> <<ErrTitleBlank>>, logged |-> 0, calls |-> 0]
    ELSE IF author = ""
        THEN [db |-> w.db, mock |-> w.mock, resp |-> NilResponse,
              err |-> <<ErrAuthorBlank>>, logged |-> 0, calls |-> 0]
    ELSE LET r == Store_CreateBook(kind, w, title, author, fault)
         IN  IF r.err # NoError
                 THEN [db |-> r.db, mock |-> r.mock, resp |-> NilResponse,
                       err |-> Wrap("add book", r.err), logged |-> 1,
                       calls |-> 1]
             ELSE [db |-> r.db, mock |-> r.mock, resp |-> BookResponse(r.book),
                   err |-> NoError, logged |-> 1, calls |-> 1]

\* mutant: req.Author is checked before req.Title
AddBook_AuthorFirst(kind, w, title, author, fault) ==
    IF author = ""
        THEN [db |-> w.db, mock |-> w.mock, resp |-> NilResponse,
              err |-> <<ErrAuthorBlank>>, logged |-> 0, calls |-> 0]
    ELSE IF title = ""
        THEN [db |-> w.db, mock |-> w.mock, resp |-> NilResponse,
              err |-> <<ErrTitleBlank>>, logged |-> 0, calls |-> 0]
    ELSE LET r == Store_CreateBook(kind, w, title, author, fault)
         IN  IF r.err # NoError
                 THEN [db |-> r.db, mock |-> r.mock, resp |-> NilResponse,
                       err |-> Wrap("add book", r.err), logged |-> 0,
                       calls |-> 1]
             ELSE [db |-> r.db, mock |-> r.mock, resp |-> BookResponse(r.book),
                   err |-> NoError, logged |-> 1, calls |-> 1]

\* AddBook(ctx, req AddBookRequest) (*AddBookResponse, error)
LibraryService_AddBook(kind, w, title, author, fault) ==
    IF title = ""
        THEN [db |-> w.db, mock |-> w.mock, resp |-> NilResponse,
              err |-> <<ErrTitleBlank>>, logged |-> 0, calls |-> 0]
    ELSE IF author = ""
        THEN [db |-> w.db, mock |-> w.mock, resp |-> NilResponse,
              err |-> <<ErrAuthorBlank>>, logged |-> 0, calls |-> 0]
    ELSE LET r == Store_CreateBook(kind, w, title, author, fault)
         IN  IF r.err # NoError
                 THEN [db |-> r.db, mock |-> r.mock, resp |-> NilResponse,
                       err |-> Wrap("add book", r.err), logged |-> 0,
                       calls |-> 1]
             ELSE [db |-> r.db, mock |-> r.mock, resp |-> BookResponse(r.book),
                   err |-> NoError, logged |-> 1, calls |-> 1]

\* mutant: the store's error is replaced by a new one, its cause is lost
GetBook_DropsCause(kind, w, id, fault) ==
    LET r == Store_GetBookByID(kind, w, id, fault)
    IN  IF r.err # NoError
            THEN [resp |-> NilResponse, err |-> <<"get book">>,
                  logged |-> 0, calls |-> 1]
        ELSE [resp |-> BookResponse(r.book), err |-> NoError, logged |-> 0,
              calls |-> 1]

\* GetBook(ctx, req GetBookRequest) (*GetBookResponse, error)
LibraryService_GetBook(kind, w, id, fault) ==
    LET r == Store_GetBookByID(kind, w, id, fault)
    IN  IF r.err # NoError
            THEN [resp |-> NilResponse, err |-> Wrap("get book", r.err),
                  logged |-> 0, calls |-> 1]
        ELSE [resp |-> BookResponse(r.book), err |-> NoError, logged |-> 0,
              calls |-> 1]

\* GetBooks(ctx, req GetBooksRequest) (*GetBooksResponse, error)
LibraryService_GetBooks(kind, w, fault, iter, k) ==
    LET r == Store_GetBooks(kind, w, fault, iter, k)
    IN  IF r.err # NoError
            THEN [resp |-> NilResponse, err |-> Wrap("get books", r.err),
                  logged |-> 0, calls |-> 1]
        ELSE [resp |-> BooksResponse(r.books), err |-> NoError, logged |-> 0,
              calls |-> 1]

----------------------------------------------------------------------------
(* The state machine *)

NoCall ==
    [op |-> "none", store |-> "-", title |-> "", author |-> "", id |-> 0,
     fault |-> "none", iter |-> "none", k |-> 0, book |-> NilBook,
     books |-> NilSlice, resp |-> NilResponse, err |-> NoError, logged |-> 0,
     calls |-> 0]

\* the rows that d has and e has not
Removed(d, e) == {r.id : r \in d.books \ e.books}

\* no TestMain has started
NoMain == [variant |-> "none", pc |-> "idle", deferred |-> <<>>, todo |-> <<>>]

\* var ls store.LibraryStore: its DB has not been connected
NoConn == [state |-> "unopened", closes |-> 0]

\* no test function is running
NoTest ==
    [name |-> "none", pc |-> "idle", n |-> 0, made |-> {}, cleanups |-> <<>>,
     deferred |-> <<>>, ran |-> <<>>, logs |-> <<>>, failed |-> FALSE]

\* no read is in progress
NoStmt ==
    [op |-> "none", pc |-> "idle", fault |-> "none", iter |-> "none", k |-> 0,
     i |-> 0, deferred |-> <<>>, rows |-> "none", err |-> NoError]

\* a goroutine that has not called CreateBook
NoCaller ==
    [pc |-> "idle", inplace |-> FALSE, title |-> "", author |-> "", val |-> 0,
     id |-> 0, book |-> NilBook, err |-> NoError]

\* the goroutines that share the handle
Callers == {"g1", "g2"}

\* nothing of the test harness is running
Idle ==
    /\ main = NoMain
    /\ conn = NoConn
    /\ t = NoTest
    /\ stmt = NoStmt
    /\ callers = [c \in Callers |-> NoCaller]

Init ==
    /\ svc \in [Store : StoreKinds]
    /\ db = [books |-> {}, books_id_seq |-> 0]
    /\ mock = NewMock("nil")
    /\ created = <<>>
    /\ deleted = {}
    /\ ret = NoCall
    /\ Idle

\* a test builds a fresh mockStore
NewMockStore ==
    \E fn \in CreateBookFns :
        /\ svc.Store = "mock"
        /\ mock' = NewMock(fn)
        /\ ret' = [NoCall EXCEPT !.op = "NewMockStore", !.store = "mock"]
        /\ UNCHANGED <<svc, db, created, deleted>>
        /\ UNCHANGED harness

StoreCreateBook ==
    \E title \in Titles, author \in Authors, fault \in Faults :
        \E r \in {LibraryStore_CreateBook(db, title, author, fault)} :
            /\ svc.Store = "db"
            /\ r.db.books_id_seq <= MaxSeq
            /\ db' = r.db
            /\ created' = IF r.err = NoError THEN Append(created, r.book)
                           ELSE created
            /\ ret' = [NoCall EXCEPT !.op = "CreateBook", !.store = "db",
                          !.title = title, !.author = author, !.fault = fault,
                          !.book = r.book, !.err = r.err]
            /\ UNCHANGED <<svc, mock, deleted>>
            /\ UNCHANGED harness

StoreCreateBookInPlace ==
    \E title \in Titles, author \in Authors, id \in InPlaceIDs,
       fault \in Faults :
        \E r \in {LibraryStore_CreateBookInPlace(db, Book(id, title, author),
                                                fault)} :
            /\ svc.Store = "db"
            /\ r.db.books_id_seq <= MaxSeq
            /\ db' = r.db
            /\ created' = IF r.err = NoError THEN Append(created, r.book)
                           ELSE created
            /\ ret' = [NoCall EXCEPT !.op = "CreateBookInPlace",
                          !.store = "db", !.title = title, !.author = author,
                          !.id = id, !.fault = fault, !.book = r.book,
                          !.err = r.err]
            /\ UNCHANGED <<svc, mock, deleted>>
            /\ UNCHANGED harness

StoreDeleteBook ==
    \E id \in IDs, fault \in Faults :
        \E r \in {LibraryStore_DeleteBook(db, id, fault)} :
            /\ svc.Store = "db"
            /\ db' = r.db
            /\ deleted' = deleted \cup Removed(db, r.db)
            /\ ret' = [NoCall EXCEPT !.op = "DeleteBook", !.store = "db",
                          !.id = id, !.fault = fault, !.err = r.err]
            /\ UNCHANGED <<svc, mock, created>>
            /\ UNCHANGED harness

StoreGetBookByID ==
    \E id \in IDs, fault \in Faults :
        \E r \in {LibraryStore_GetBookByID(db, id, fault)} :
            /\ svc.Store = "db"
            /\ ret' = [NoCall EXCEPT !.op = "GetBookByID", !.store = "db",
                          !.id = id, !.fault = fault, !.book = r.book,
                          !.err = r.err]
            /\ db' = AfterSelect(db)
            /\ UNCHANGED <<svc, mock, created, deleted>>
            /\ UNCHANGED harness

StoreGetBooks ==
    \E fault \in Faults, iter \in IterFaults, k \in Cuts :
        \E r \in {LibraryStore_GetBooks(db, fault, iter, k)} :
            /\ svc.Store = "db"
            /\ iter = "none" => k = 0
            /\ fault # "none" => iter = "none"
            /\ iter = "scan_err" => k < Cardinality(db.books)
            /\ iter = "next_err" => k <= Cardinality(db.books)
            /\ ret' = [NoCall EXCEPT !.op = "GetBooks", !.store = "db",
                          !.fault = fault, !.iter = iter, !.k = k,
                          !.books = r.books, !.err = r.err]
            /\ db' = AfterSelect(db)
            /\ UNCHANGED <<svc, mock, created, deleted>>
            /\ UNCHANGED harness

ServiceAddBook ==
    \E kind \in {svc.Store}, title \in Titles, author \in Authors,
       fault \in Faults :
        \E r \in {LibraryService_AddBook(kind, [db |-> db, mock |-> mock],
                                        title, author, fault)} :
            /\ kind = "mock" => fault = "none"
            /\ r.db.books_id_seq <= MaxSeq
            /\ Len(r.mock.CreateBookCalledWith) <= MaxCalls
            /\ db' = r.db
            /\ mock' = r.mock
            /\ created' = IF kind = "db" /\ r.err = NoError
                               THEN Append(created, r.resp.Book)
                           ELSE created
            /\ ret' = [NoCall EXCEPT !.op = "AddBook", !.store = kind,
                          !.title = title, !.author = author, !.fault = fault,
                          !.resp = r.resp, !.err = r.err,
                          !.logged = r.logged, !.calls = r.calls]
            /\ UNCHANGED <<svc, deleted>>
            /\ UNCHANGED harness

ServiceGetBook ==
    \E kind \in {svc.Store}, id \in IDs, fault \in Faults :
        \E r \in {LibraryService_GetBook(kind, [db |-> db, mock |-> mock], id,
                                        fault)} :
            /\ kind = "mock" => fault = "none"
            /\ ret' = [NoCall EXCEPT !.op = "GetBook", !.store = kind,
                          !.id = id, !.fault = fault, !.resp = r.resp,
                          !.err = r.err, !.logged = r.logged,
                          !.calls = r.calls]
            /\ db' = IF kind = "db" THEN AfterSelect(db) ELSE db
            /\ UNCHANGED <<svc, mock, created, deleted>>
            /\ UNCHANGED harness

ServiceGetBooks ==
    \E kind \in {svc.Store}, fault \in Faults, iter \in IterFaults,
       k \in Cuts :
        \E r \in {LibraryService_GetBooks(kind, [db |-> db, mock |-> mock],
                                         fault, iter, k)} :
            /\ kind = "mock" => fault = "none" /\ iter = "none"
            /\ iter = "none" => k = 0
            /\ fault # "none" => iter = "none"
            /\ iter = "scan_err" => k < Cardinality(db.books)
            /\ iter = "next_err" => k <= Cardinality(db.books)
            /\ ret' = [NoCall EXCEPT !.op = "ServiceGetBooks",
                          !.store = kind, !.fault = fault, !.iter = iter,
                          !.k = k, !.resp = r.resp, !.err = r.err,
                          !.logged = r.logged, !.calls = r.calls]
            /\ db' = IF kind = "db" THEN AfterSelect(db) ELSE db
            /\ UNCHANGED <<svc, mock, created, deleted>>
            /\ UNCHANGED harness

Next ==
    \/ NewMockStore
    \/ StoreCreateBook
    \/ StoreCreateBookInPlace
    \/ StoreDeleteBook
    \/ StoreGetBookByID
    \/ StoreGetBooks
    \/ ServiceAddBook
    \/ ServiceGetBook
    \/ ServiceGetBooks

Spec == Init /\ [][Next]_vars

----------------------------------------------------------------------------
(* The store test suites: TestMain, the test functions and their cleanups. *)
(* The test database is taken to be reachable and to answer every         *)
(* statement sent on an open handle.                                      *)

ErrDBClosed == "sql: database is closed"

\* the suites of the lessons: TestMain closing the handle itself, TestMain
\* deferring the close, and no TestMain (the test connects on its own)
Variants == {"close", "defer", "own"}

\* the test functions of a suite, in source order
TestsOf(variant) ==
    CASE variant = "close" -> <<"CreateBook", "GetBookByID", "GetBooks">>
      [] variant = "defer"
            -> <<"CreateBook", "DeleteBook", "GetBookByID", "GetBooks">>
      [] OTHER -> <<"CreateBook">>

LeanStartup == <<"The Lean Startup", "Eric Ries">>

\* params of TestLibraryStore_GetBooks
Params ==
    << <<"Norse Mythology", "Neil Gaiman">>,
       <<"The Divine Comedy", "Dante Alighieri">>,
       <<"2001: A Space Odyssey", "Arthur C. Clarke">> >>

\* the books a test function creates, in order
ParamsOf(name) == IF name = "GetBooks" THEN Params ELSE <<LeanStartup>>

\* the test functions that register the deletion of what they create
Registers(name) == name # "DeleteBook"

\* go test -run: the tests of the suite that are run, in source order
RECURSIVE Selections(_)
Selections(tests) ==
    IF tests = <<>> THEN {<<>>}
    ELSE LET rest == Selections(Tail(tests))
         IN  rest \cup {<<Head(tests)>> \o sel : sel \in rest}

\* rows that were in the table before the suite started
Seeds ==
    {[books |-> {}, books_id_seq |-> 0],
     [books |-> {Row(1, "Dune", "Frank Herbert")}, books_id_seq |-> 1]}

\* sqlx.MustConnect
Connect(c) == [c EXCEPT !.state = "open"]

\* (*sqlx.DB).Close
Close(c) == [c EXCEPT !.state = "closed", !.closes = @ + 1]

\* ls.CreateBook on the handle c, with the contract of the suite's lesson
Conn_CreateBook(variant, c, d, title, author) ==
    IF c.state # "open"
        THEN [db |-> d, book |-> NilBook,
              err |-> Wrap("create book", <<ErrDBClosed>>)]
    ELSE IF variant = "defer"
        THEN LibraryStore_CreateBook(d, title, author, "none")
    ELSE LibraryStore_CreateBookInPlace(d, Book(0, title, author), "none")

\* deleteBook(ctx, t, ls.DB, id) and ls.DeleteBook(ctx, id) on the handle c
deleteBook(c, d, id) ==
    IF c.state # "open"
        THEN [db |-> d, err |-> Wrap("delete book", <<ErrDBClosed>>)]
    ELSE LibraryStore_DeleteBook(d, id, "none")

\* test.MustCleanup(t, f): f deletes the book with this id
MustCleanup(tt, id) == [tt EXCEPT !.cleanups = Append(@, id)]

\* mutant: a failed cleanup fails the test
Cleanup_Errorf(tt, id, err) ==
    IF err # NoError
        THEN [tt EXCEPT !.ran = Append(@, id), !.failed = TRUE,
                        !.logs = Append(@, <<"failed to clean up after test:">>
                                              \o err)]
    ELSE [tt EXCEPT !.ran = Append(@, id)]

\* the function MustCleanup hands to t.Cleanup, run with the error f returned
Cleanup(tt, id, err) ==
    IF err # NoError
        THEN [tt EXCEPT !.ran = Append(@, id),
                        !.logs = Append(@, <<"failed to clean up after test:">>
                                              \o err)]
    ELSE [tt EXCEPT !.ran = Append(@, id)]

SuiteInit ==
    /\ svc = [Store |-> "db"]
    /\ db \in Seeds
    /\ mock = NewMock("nil")
    /\ created = <<>>
    /\ deleted = {}
    /\ ret = NoCall
    /\ \E variant \in Variants :
          \E sel \in Selections(TestsOf(variant)) :
              main = [NoMain EXCEPT !.variant = variant, !.pc = "start",
                                    !.todo = sel]
    /\ conn = NoConn
    /\ t = NoTest
    /\ stmt = NoStmt
    /\ callers = [c \in Callers |-> NoCaller]

\* what the suite leaves alone
service == <<svc, mock, created, deleted, ret, stmt, callers>>

\* TestMain finds TEST_DATABASE_URL unset and leaves with os.Exit(0)
TestMainNoURL ==
    /\ main.pc = "start"
    /\ main.variant = "close"
    /\ main' = [main EXCEPT !.pc = "exited"]
    /\ UNCHANGED <<db, conn, t>>
    /\ UNCHANGED service

\* TestMain connects ls.DB; one lesson defers the Close here
TestMainConnect ==
    /\ main.pc = "start"
    /\ main.variant \in {"close", "defer"}
    /\ conn' = Connect(conn)
    /\ main' = [main EXCEPT !.pc = "run",
                            !.deferred = IF main.variant = "defer"
                                             THEN <<"ls.DB.Close">>
                                         ELSE <<>>]
    /\ UNCHANGED <<db, t>>
    /\ UNCHANGED service

\* a suite without TestMain: the testing package runs the tests itself
DefaultMain ==
    /\ main.pc = "start"
    /\ main.variant = "own"
    /\ main' = [main EXCEPT !.pc = "run"]
    /\ UNCHANGED <<db, conn, t>>
    /\ UNCHANGED service

\* m.Run starts the next test function; the test of the suite without
\* TestMain connects by itself and defers db.Close()
RunTest ==
    /\ main.pc = "run"
    /\ t.pc \in {"idle", "done"}
    /\ main.todo # <<>>
    /\ main' = [main EXCEPT !.todo = Tail(@)]
    /\ t' = [NoTest EXCEPT !.name = Head(main.todo), !.pc = "body",
                           !.deferred = IF main.variant = "own"
                                            THEN <<"db.Close">>
                                        ELSE <<>>]
    /\ conn' = IF main.variant = "own" THEN Connect(conn) ELSE conn
    /\ UNCHANGED db
    /\ UNCHANGED service

\* the test creates its next book and registers the deletion of it; a failed
\* create ends the test function with t.Fatal
TestCreateBook ==
    /\ t.pc = "body"
    /\ t.n < Len(ParamsOf(t.name))
    /\ \E p \in {ParamsOf(t.name)[t.n + 1]} :
          \E r \in {Conn_CreateBook(main.variant, conn, db, p[1], p[2])} :
              /\ db' = r.db
              /\ t' = IF r.err # NoError
                          THEN [t EXCEPT !.failed = TRUE, !.pc = "defers"]
                      ELSE LET made == [t EXCEPT !.n = @ + 1,
                                                 !.made = @ \cup {r.book.ID}]
                           IN  IF Registers(t.name)
                                   THEN MustCleanup(made, r.book.ID)
                               ELSE made
    /\ UNCHANGED <<main, conn>>
    /\ UNCHANGED service

\* the rest of the test function, up to its return: the reads and the
\* comparisons, and in TestLibraryStore_DeleteBook the DeleteBook
TestReturn ==
    /\ t.pc = "body"
    /\ t.n = Len(ParamsOf(t.name))
    /\ IF t.name = "DeleteBook"
           THEN \E id \in t.made :
                   \E r \in {deleteBook(conn, db, id)} :
                       /\ db' = r.db
                       /\ t' = [t EXCEPT !.pc = "defers",
                                         !.failed = r.err # NoError]
       ELSE /\ db' = db
            /\ t' = [t EXCEPT !.pc = "defers"]
    /\ UNCHANGED <<main, conn>>
    /\ UNCHANGED service

\* the deferred calls of the test function run as it returns
TestDeferred ==
    /\ t.pc = "defers"
    /\ conn' = IF t.deferred # <<>> THEN Close(conn) ELSE conn
    /\ t' = [t EXCEPT !.pc = "cleanups", !.deferred = <<>>]
    /\ UNCHANGED <<main, db>>
    /\ UNCHANGED service

\* t.Cleanup: the functions registered last run first, after the test
\* function and its deferred calls
TestCleanup ==
    /\ t.pc = "cleanups"
    /\ t.cleanups # <<>>
    /\ \E id \in {t.cleanups[Len(t.cleanups)]} :
          \E r \in {deleteBook(conn, db, id)} :
              /\ db' = r.db
              /\ t' = Cleanup([t EXCEPT !.cleanups
                                           = SubSeq(@, 1, Len(@) - 1)],
                              id, r.err)
    /\ UNCHANGED <<main, conn>>
    /\ UNCHANGED service

\* the test and its cleanups have finished
TestDone ==
    /\ t.pc = "cleanups"
    /\ t.cleanups = <<>>
    /\ t' = [t EXCEPT !.pc = "done"]
    /\ UNCHANGED <<main, db, conn>>
    /\ UNCHANGED service

\* code := m.Run() returns when no test is left
MRunReturns ==
    /\ main.pc = "run"
    /\ main.todo = <<>>
    /\ t.pc \in {"idle", "done"}
    /\ main' = [main EXCEPT !.pc = "ran"]
    /\ UNCHANGED <<db, conn, t>>
    /\ UNCHANGED service

\* ls.DB.Close() between m.Run() and os.Exit(code)
TestMainClose ==
    /\ main.pc = "ran"
    /\ main.variant = "close"
    /\ conn' = Close(conn)
    /\ main' = [main EXCEPT !.pc = "exit"]
    /\ UNCHANGED <<db, t>>
    /\ UNCHANGED service

\* os.Exit(code): the process ends at once, deferred calls are not run
OsExit ==
    /\ \/ main.pc = "exit"
       \/ main.pc = "ran" /\ main.variant # "close"
    /\ main' = [main EXCEPT !.pc = "exited"]
    /\ UNCHANGED <<db, conn, t>>
    /\ UNCHANGED service

SuiteNext ==
    \/ TestMainNoURL
    \/ TestMainConnect
    \/ DefaultMain
    \/ RunTest
    \/ TestCreateBook
    \/ TestReturn
    \/ TestDeferred
    \/ TestCleanup
    \/ TestDone
    \/ MRunReturns
    \/ TestMainClose
    \/ OsExit

SuiteSpec == SuiteInit /\ [][SuiteNext]_vars

----------------------------------------------------------------------------
(* The reads of the store, statement by statement: the rows (cursor) a    *)
(* query opens and the calls that close them.                             *)

\* the tables a read finds
Tables ==
    {[books |-> {Row(i, "Dune", "Frank Herbert") : i \in 1 .. n},
      books_id_seq |-> n] : n \in 0 .. MaxSeq}

\* mutant: rows.Close() is not deferred
DeferNothing(deferred) == deferred

\* defer rows.Close()
DeferClose(deferred) == Append(deferred, "rows.Close")

\* (*sqlx.Rows).Close: closing rows that are closed already changes nothing
RowsClose(rows) == IF rows = "open" THEN "closed" ELSE rows

\* the deferred calls of the function run, last deferred first
RECURSIVE RunDeferred(_, _)
RunDeferred(deferred, rows) ==
    IF deferred = <<>> THEN rows
    ELSE RunDeferred(SubSeq(deferred, 1, Len(deferred) - 1),
                     IF deferred[Len(deferred)] = "rows.Close"
                         THEN RowsClose(rows)
                     ELSE rows)

StmtInit ==
    /\ svc = [Store |-> "db"]
    /\ db \in Tables
    /\ mock = NewMock("nil")
    /\ created = <<>>
    /\ deleted = {}
    /\ ret = NoCall
    /\ main = NoMain
    /\ conn = NoConn
    /\ t = NoTest
    /\ stmt = NoStmt
    /\ callers = [c \in Callers |-> NoCaller]

\* what a read leaves alone
beside == <<svc, db, mock, created, deleted, ret, main, conn, t, callers>>

\* GetBooks: s.DB.QueryxContext(ctx, q); a failed query returns at once
GetBooksQuery ==
    \E fault \in Faults, iter \in IterFaults, k \in Cuts :
        /\ stmt.pc = "idle"
        /\ iter = "none" => k = 0
        /\ fault # "none" => iter = "none"
        /\ iter = "scan_err" => k < Cardinality(db.books)
        /\ iter = "next_err" => k <= Cardinality(db.books)
        /\ stmt' = IF fault # "none"
                       THEN [NoStmt EXCEPT
                                !.op = "GetBooks", !.pc = "returned",
                                !.fault = fault,
                                !.err = Wrap("get books", <<FaultErr(fault)>>)]
                   ELSE [NoStmt EXCEPT !.op = "GetBooks", !.pc = "defer",
                                       !.iter = iter, !.k = k,
                                       !.rows = "open"]
        /\ UNCHANGED beside

\* GetBooks: defer rows.Close()
GetBooksDefer ==
    /\ stmt.pc = "defer"
    /\ stmt' = [stmt EXCEPT !.pc = "next",
                            !.deferred = DeferClose(stmt.deferred)]
    /\ UNCHANGED beside

\* GetBooks: rows.Next(); when it returns false, at the end of the rows or
\* on an error, database/sql has closed the rows
GetBooksNext ==
    /\ stmt.pc = "next"
    /\ stmt' = IF \/ stmt.i = Cardinality(db.books)
                  \/ stmt.iter = "next_err" /\ stmt.i = stmt.k
                   THEN [stmt EXCEPT !.pc = "return",
                                     !.rows = RowsClose(stmt.rows)]
               ELSE [stmt EXCEPT !.pc = "scan"]
    /\ UNCHANGED beside

\* GetBooks: rows.Scan(...); a failed Scan returns from inside the loop
GetBooksScan ==
    /\ stmt.pc = "scan"
    /\ stmt' = IF stmt.iter = "scan_err" /\ stmt.i = stmt.k
                   THEN [stmt EXCEPT !.pc = "return",
                                     !.err = Wrap("get books",
                                                  <<ErrRowsClosed>>)]
               ELSE [stmt EXCEPT !.pc = "next", !.i = @ + 1]
    /\ UNCHANGED beside

\* GetBooks returns: its deferred calls run
GetBooksReturn ==
    /\ stmt.pc = "return"
    /\ stmt' = [stmt EXCEPT !.pc = "returned", !.deferred = <<>>,
                            !.rows = RunDeferred(stmt.deferred, stmt.rows)]
    /\ UNCHANGED beside

\* GetBookByID: s.DB.QueryRowxContext(ctx, q, id); the Row keeps the error
\* of a failed query and has no rows then
GetBookByIDQuery ==
    \E id \in IDs, fault \in Faults :
        /\ stmt.pc = "idle"
        /\ stmt' = [NoStmt EXCEPT
                       !.op = "GetBookByID", !.pc = "rowscan", !.fault = fault,
                       !.i = id,
                       !.rows = IF fault = "none" THEN "open" ELSE "none"]
        /\ UNCHANGED beside

\* GetBookByID: Row.Scan reads at most one row and closes the rows itself
GetBookByIDScan ==
    /\ stmt.pc = "rowscan"
    /\ stmt' = [stmt EXCEPT
                   !.pc = "returned",
                   !.rows = RowsClose(stmt.rows),
                   !.err = LibraryStore_GetBookByID(db, stmt.i,
                                                    stmt.fault).err]
    /\ UNCHANGED beside

\* the caller goes on to its next read
StmtDone ==
    /\ stmt.pc = "returned"
    /\ stmt' = NoStmt
    /\ UNCHANGED beside

StmtNext ==
    \/ GetBooksQuery
    \/ GetBooksDefer
    \/ GetBooksNext
    \/ GetBooksScan
    \/ GetBooksReturn
    \/ GetBookByIDQuery
    \/ GetBookByIDScan
    \/ StmtDone

StmtSpec == StmtInit /\ [][StmtNext]_vars

----------------------------------------------------------------------------
(* CreateBook called by several goroutines on one LibraryStore. The pool  *)
(* behind the handle gives each statement a session of its own; in the    *)
(* database the nextval of a statement and the insertion of its row are   *)
(* separate steps, each atomic.                                           *)

\* mutant: the id is scanned into a variable of the package, not of the call
ScanID_Shared(cs, c, val) == [x \in Callers |-> [cs[x] EXCEPT !.id = val]]

\* GetContext(ctx, &id, ...) / GetContext(ctx, &book.ID, ...): the returned
\* id is scanned into memory that belongs to this call
ScanID(cs, c, val) == [cs EXCEPT ![c].id = val]

ConcInit ==
    /\ svc = [Store |-> "db"]
    /\ db = [books |-> {}, books_id_seq |-> 0]
    /\ mock = NewMock("nil")
    /\ created = <<>>
    /\ deleted = {}
    /\ ret = NoCall
    /\ main = NoMain
    /\ conn = NoConn
    /\ t = NoTest
    /\ stmt = NoStmt
    /\ callers = [c \in Callers |-> NoCaller]

\* what the concurrent creates leave alone
apart == <<svc, mock, deleted, ret, main, conn, t, stmt>>

\* a goroutine calls CreateBook, of either contract; a statement that cannot
\* be sent fails the call at once
ConcCall(c) ==
    \E title \in Titles, author \in Authors, inplace \in BOOLEAN,
       fault \in Faults :
        /\ callers[c].pc = "idle"
        /\ callers' = [callers EXCEPT ![c] =
              IF fault # "none"
                  THEN [NoCaller EXCEPT
                           !.pc = "returned", !.inplace = inplace,
                           !.title = title, !.author = author,
                           !.book = IF inplace THEN Book(0, title, author)
                                    ELSE NilBook,
                           !.err = Wrap("create book", <<FaultErr(fault)>>)]
              ELSE [NoCaller EXCEPT
                       !.pc = "nextval", !.inplace = inplace,
                       !.title = title, !.author = author,
                       !.book = IF inplace THEN Book(0, title, author)
                                ELSE NilBook]]
        /\ UNCHANGED <<db, created>>
        /\ UNCHANGED apart

\* the session of the statement evaluates the default of id
ConcNextval(c) ==
    /\ callers[c].pc = "nextval"
    /\ Nextval(db) <= MaxSeq
    /\ db' = [db EXCEPT !.books_id_seq = Nextval(db)]
    /\ callers' = [callers EXCEPT ![c].pc = "insert", ![c].val = Nextval(db)]
    /\ UNCHANGED created
    /\ UNCHANGED apart

\* the session checks the constraints and inserts its row
ConcInsert(c) ==
    /\ callers[c].pc = "insert"
    /\ IF CheckViolation(callers[c].title, callers[c].author)
           THEN /\ callers' = [callers EXCEPT
                                  ![c].pc = "returned",
                                  ![c].err = Wrap("create book", <<ErrCheck>>)]
                /\ db' = db
       ELSE IF \E r \in db.books : r.id = callers[c].val
           THEN /\ callers' = [callers EXCEPT
                                  ![c].pc = "returned",
                                  ![c].err = Wrap("create book", <<ErrUnique>>)]
                /\ db' = db
       ELSE /\ callers' = [callers EXCEPT ![c].pc = "scan"]
            /\ db' = [db EXCEPT !.books = @ \cup {Row(callers[c].val,
                                                      callers[c].title,
                                                      callers[c].author)}]
    /\ UNCHANGED created
    /\ UNCHANGED apart

\* RETURNING id arrives and is scanned
ConcScan(c) ==
    /\ callers[c].pc = "scan"
    /\ callers' = [ScanID(callers, c, callers[c].val) EXCEPT ![c].pc = "return"]
    /\ UNCHANGED <<db, created>>
    /\ UNCHANGED apart

\* CreateBook returns its book: a new one built from id, title and author,
\* or the caller's own with its ID set
ConcReturn(c) ==
    /\ callers[c].pc = "return"
    /\ \E book \in {IF callers[c].inplace
                        THEN [callers[c].book EXCEPT !.ID = callers[c].id]
                    ELSE Book(callers[c].id, callers[c].title,
                              callers[c].author)} :
          /\ callers' = [callers EXCEPT ![c].pc = "returned", ![c].book = book]
          /\ created' = Append(created, book)
    /\ UNCHANGED db
    /\ UNCHANGED apart

\* the goroutine is ready for its next call
ConcDone(c) ==
    /\ callers[c].pc = "returned"
    /\ callers' = [callers EXCEPT ![c] = NoCaller]
    /\ UNCHANGED <<db, created>>
    /\ UNCHANGED apart

ConcNext ==
    \E c \in Callers :
        \/ ConcCall(c)
        \/ ConcNextval(c)
        \/ ConcInsert(c)
        \/ ConcScan(c)
        \/ ConcReturn(c)
        \/ ConcDone(c)

ConcSpec == ConcInit /\ [][ConcNext]_vars

----------------------------------------------------------------------------
(* Properties *)

\* errors.Is(err, target): target is somewhere in err's chain
ErrorsIs(err, target) == \E i \in 1 .. Len(err) : err[i] = target

\* a created book whose row no DELETE has removed
Live(b) == b.ID \notin deleted

\* no create has returned this id
NeverAssigned(id) == \A i \in 1 .. Len(created) : created[i].ID # id

IsValidationError(err) == err \in {<<ErrTitleBlank>>, <<ErrAuthorBlank>>}

\* the store call of the last service call succeeded or would have
StoreWorks ==
    /\ ret.fault = "none"
    /\ ret.store = "mock" => mock.CreateBookFn # "nil"

\* C1: an AddBook whose Title and Author are both non-empty, and whose store
\* create succeeds, returns no error and a response whose Book is non-nil,
\* has a non-zero ID and has exactly the request's Title and Author.
C1_AddBookReturnsBook ==
    (ret.op = "AddBook" /\ ret.title # "" /\ ret.author # "" /\ StoreWorks)
        => /\ ret.err = NoError
           /\ ~ret.resp.isNil
           /\ ~ret.resp.Book.isNil
           /\ ret.resp.Book.ID # 0
           /\ ret.resp.Book.Title = ret.title
           /\ ret.resp.Book.Author = ret.author

C1_Witness ==
    /\ ret.op = "AddBook"
    /\ ret.store = "db"
    /\ ret.title = "Emma"
    /\ ret.err = NoError
    /\ ret.resp.Book.ID = 2

\* C2: an AddBook whose Title or Author is empty returns a validation error
\* and no response, and never calls the store: the mockStore (its
\* CreateBookCalledWith log included) and the database are left as they were.
C2_ValidationBeforeStore ==
    [][(ret'.op = "AddBook" /\ (ret'.title = "" \/ ret'.author = ""))
          => /\ IsValidationError(ret'.err)
             /\ ret'.resp.isNil
             /\ ret'.calls = 0
             /\ mock' = mock
             /\ db' = db]_vars

C2_Witness ==
    /\ ret.op = "AddBook"
    /\ ret.title = "Dune"
    /\ ret.author = ""
    /\ ret.store = "mock"
    /\ mock.CreateBookFn = "test"
    /\ mock.CreateBookCalledWith = <<>>
    /\ IsValidationError(ret.err)

\* C3: a book the store created and no delete has removed is read back
\* unchanged: GetBookByID / GetBook with the id the create returned yields a
\* book with that id and exactly the Title and Author that were written.
C3_RoundTrip ==
    /\ \A i \in 1 .. Len(created) :
          (Live(created[i]) /\ ret.id = created[i].ID /\ ret.fault = "none")
              => /\ ret.op = "GetBookByID"
                      => ret.err = NoError /\ ret.book = created[i]
                 /\ ret.op = "GetBook"
                      => /\ ret.err = NoError
                         /\ ~ret.resp.isNil
                         /\ ret.resp.Book = created[i]
    /\ (ret.op = "GetBookByID" /\ ret.err = NoError) => ret.book.ID = ret.id
    /\ (ret.op = "GetBook" /\ ret.err = NoError) => ret.resp.Book.ID = ret.id

C3_Witness ==
    /\ ret.op = "GetBook"
    /\ ret.err = NoError
    /\ ret.resp.Book = Book(2, "Emma", "Frank Herbert")
    /\ deleted = {1}

C5_GetBooksAll ==
    (ret.op \in {"GetBooks", "ServiceGetBooks"} /\ ret.store = "db"
        /\ ret.fault = "none" /\ ret.iter = "none")
        => LET got == IF ret.op = "GetBooks" THEN ret.books
                      ELSE ret.resp.Books
               bs == got.elems
           IN  /\ ret.err = NoError
               /\ ~got.isNil
               /\ bs = SelectSeq(created, Live)
               /\ {bs[i] : i \in 1 .. Len(bs)} = {Scan(r) : r \in db.books}
               /\ Len(bs) = Cardinality(db.books)
               /\ \A i, j \in 1 .. Len(bs) : i < j => bs[i].ID < bs[j].ID
               /\ (created # <<>> /\ Live(created[Len(created)]))
                      => bs[Len(bs)] = created[Len(created)]

C5_Witness ==
    /\ ret.op = "GetBooks"
    /\ ret.err = NoError
    /\ Len(ret.books.elems) = 2
    /\ ret.books.elems[1].Title = "Emma"
    /\ ret.books.elems[2].Title = "Dune"

\* C6: a DeleteBook whose id matches no stored row (never assigned, or already
\* deleted) leaves the table as it was and, when the database answers,
\* returns no error; so a second delete of an id changes nothing more.
C6_DeleteIdempotent ==
    [][(ret'.op = "DeleteBook" /\ SelectByID(db, ret'.id) = {})
          => /\ db' = db
             /\ ret'.fault = "none" => ret'.err = NoError
             /\ LibraryStore_DeleteBook(db', ret'.id, "none")
                    = [db |-> db', err |-> NoError]]_vars

C6_Witness ==
    /\ ret.op = "DeleteBook"
    /\ ret.id = 1
    /\ ret.err = NoError
    /\ SelectByID(db, 2) # {}
    /\ NeverAssigned(1)

\* C7: with no rows in the table, a GetBooks that returns a nil error returns
\* a slice that is not nil and has length 0, and GetBooks does return a nil
\* error when the database answers.
C7_EmptyNotNil ==
    (ret.op \in {"GetBooks", "ServiceGetBooks"} /\ ret.store = "db"
        /\ db.books = {})
        => LET got == IF ret.op = "GetBooks" THEN ret.books
                      ELSE ret.resp.Books
           IN  /\ ret.fault = "none" => ret.err = NoError
               /\ ret.err = NoError => ~got.isNil /\ Len(got.elems) = 0

C7_Witness ==
    /\ ret.op = "GetBooks"
    /\ db.books = {}
    /\ deleted # {}
    /\ ret.err = NoError
    /\ ret.books = Slice(<<>>)

\* C8: a store CreateBook with an empty title or an empty author returns an
\* error, which wraps the check violation when the statement reached the
\* database; it adds no row; the returning variant returns no book and the
\* in-place variant leaves the book it was given, its ID included, untouched.
C8_CreateRejectsEmpty ==
    [][(ret'.op \in {"CreateBook", "CreateBookInPlace"}
           /\ (ret'.title = "" \/ ret'.author = ""))
          => /\ ret'.err # NoError
             /\ ret'.err[1] = "create book"
             /\ ret'.fault = "none" <=> ErrorsIs(ret'.err, ErrCheck)
             /\ db'.books = db.books
             /\ created' = created
             /\ ret'.op = "CreateBook" => ret'.book.isNil
             /\ ret'.op = "CreateBookInPlace"
                    => ret'.book = Book(ret'.id, ret'.title, ret'.author)]_vars

C8_Witness ==
    /\ ret.op = "CreateBookInPlace"
    /\ ret.title = "Dune"
    /\ ret.author = ""
    /\ ret.id = 1
    /\ ret.book.ID = 1
    /\ ErrorsIs(ret.err, ErrCheck)
    /\ db.books # {}

\* C9: every row of the books table has a non-zero id, a non-empty title and
\* a non-empty author, whichever way it was created.
C9_StoredBooksValid ==
    \A r \in db.books : r.id # 0 /\ r.title # "" /\ r.author # ""

C9_Witness ==
    /\ Cardinality(db.books) = 2
    /\ ret.op = "AddBook"
    /\ ret.err = NoError
    /\ \E i \in 1 .. Len(created) : created[i].ID = 1

\* C10: the ids the creates have returned are pairwise different, deleted
\* books included; the table holds one row per id; and the row of a created
\* book keeps its id, title and author until it is deleted.
C10_UniqueIDs ==
    /\ \A i, j \in 1 .. Len(created) :
          i < j => created[i].ID < created[j].ID
    /\ \A r, q \in db.books : r.id = q.id => r = q
    /\ \A i \in 1 .. Len(created) :
          Live(created[i])
              => SelectByID(db, created[i].ID)
                    = {Row(created[i].ID, created[i].Title, created[i].Author)}
    /\ (ret.op \in {"CreateBook", "CreateBookInPlace"} /\ ret.err = NoError)
          => /\ created # <<>>
             /\ ret.book = created[Len(created)]
             /\ ret.book.ID \notin deleted

C10_Witness ==
    /\ ret.op = "CreateBook"
    /\ ret.err = NoError
    /\ ret.book.ID = 2
    /\ deleted = {1}

\* the result of the last GetBooks, of the store or of the service
GotBooks == IF ret.op = "GetBooks" THEN ret.books ELSE ret.resp.Books

\* C11: every service operation and every store read returns either a
\* populated result or an error, never both and never neither: with an error
\* the result is nil, and with a nil error the result is non-nil and complete
\* (a book for AddBook, GetBook and GetBookByID, every stored row for
\* GetBooks).
C11_ResultXorError ==
    /\ ret.op \in {"AddBook", "GetBook"}
          => /\ ret.err # NoError => ret.resp.isNil
             /\ ret.err = NoError => ~ret.resp.isNil /\ ~ret.resp.Book.isNil
    /\ ret.op = "GetBookByID"
          => /\ ret.err # NoError => ret.book.isNil
             /\ ret.err = NoError => ~ret.book.isNil
    /\ ret.op = "ServiceGetBooks"
          => /\ ret.err # NoError => ret.resp.isNil
             /\ ret.err = NoError
                    => /\ ~ret.resp.isNil
                       /\ ~ret.resp.Books.isNil
                       /\ Len(ret.resp.Books.elems) = Cardinality(db.books)
    /\ ret.op = "GetBooks"
          => /\ ret.err # NoError => ret.books.isNil
             /\ ret.err = NoError
                    => /\ ~ret.books.isNil
                       /\ Len(ret.books.elems) = Cardinality(db.books)

\* C12: a GetBooks whose query fails, or whose result set breaks at any point
\* of its iteration, returns an error; it never returns a nil error with a
\* list that lacks stored rows.
C12_GetBooksFailureSurfaces ==
    (ret.op \in {"GetBooks", "ServiceGetBooks"} /\ ret.store = "db")
        => /\ (ret.fault # "none" \/ ret.iter # "none") => ret.err # NoError
           /\ ret.err = NoError
                  => Len(GotBooks.elems) = Cardinality(db.books)

\* C13: a successful AddBook has called the store's create exactly once, with
\* the Title and the Author of the request and nothing else, and the Book of
\* its response is the book that call returned, unchanged. With the mock the
\* call is the one new entry of CreateBookCalledWith; with the database it is
\* the one INSERT that advanced books_id_seq and added the one row.
C13_AddBookDelegates ==
    [][(ret'.op = "AddBook" /\ ret'.err = NoError)
          => /\ ret'.calls = 1
             /\ ~ret'.resp.isNil
             /\ svc.Store = "mock"
                    => /\ mock'.CreateBookCalledWith
                            = Append(mock.CreateBookCalledWith,
                                     [Title |-> ret'.title,
                                      Author |-> ret'.author])
                       /\ ret'.resp.Book
                            = CreateBookFn(mock.CreateBookFn, ret'.title,
                                           ret'.author).book
                       /\ db' = db
             /\ svc.Store = "db"
                    => /\ db'.books_id_seq = db.books_id_seq + 1
                       /\ db'.books
                            = db.books \cup {Row(db'.books_id_seq, ret'.title,
                                                 ret'.author)}
                       /\ ret'.resp.Book
                            = Book(db'.books_id_seq, ret'.title, ret'.author)
                       /\ mock' = mock]_vars

\* a second AddBook has succeeded through the mock, and one has through the
\* database after an earlier row
C13_Witness ==
    /\ ret.op = "AddBook"
    /\ ret.err = NoError
    /\ ret.calls = 1
    /\ \/ ret.store = "mock" /\ Len(mock.CreateBookCalledWith) = 2
       \/ ret.store = "db" /\ ret.resp.Book.ID = 2

\* C14: each operation of the mock store (CreateBook, GetBookByID, GetBooks)
\* that is invoked while it has no behaviour function fails with
\* ErrMockNotImplemented: the service call that reached it returns an error
\* whose cause is ErrMockNotImplemented.
C14_UnsetFails ==
    (ret.store = "mock" /\ ret.calls = 1)
        => /\ (ret.op = "AddBook" /\ mock.CreateBookFn = "nil")
                  => ErrorsIs(ret.err, ErrMockNotImplemented)
           /\ ret.op = "GetBook" => ErrorsIs(ret.err, ErrMockNotImplemented)
           /\ ret.op = "ServiceGetBooks"
                  => ErrorsIs(ret.err, ErrMockNotImplemented)

\* the arguments of the CreateBook that the last AddBook passed to its store
CalledWith(r) == [Title |-> r.title, Author |-> r.author]

\* log is the beginning of log2
IsPrefix(log, log2) ==
    /\ Len(log) <= Len(log2)
    /\ \A i \in 1 .. Len(log) : log2[i] = log[i]

\* C15 (as stated): every call of the mock's CreateBook appends exactly one
\* entry, holding the arguments of the call, to CreateBookCalledWith.
C15_EveryCallRecorded ==
    [][(ret'.op = "AddBook" /\ ret'.store = "mock" /\ ret'.calls = 1)
          => mock'.CreateBookCalledWith
                = Append(mock.CreateBookCalledWith, CalledWith(ret'))]_vars

\* C15 (amended): a call of the mock's CreateBook made while CreateBookFn is
\* set appends exactly one entry, holding the arguments of the call, to the
\* end of CreateBookCalledWith; a call made while CreateBookFn is nil leaves
\* the log as it was; and as long as the mock is not replaced by a fresh one
\* the entries already in the log stay where and what they were.
C15_ConfiguredCallsRecorded ==
    [][/\ (ret'.op = "AddBook" /\ ret'.store = "mock" /\ ret'.calls = 1)
             => IF mock.CreateBookFn # "nil"
                    THEN mock'.CreateBookCalledWith
                            = Append(mock.CreateBookCalledWith,
                                     CalledWith(ret'))
                ELSE mock'.CreateBookCalledWith = mock.CreateBookCalledWith
       /\ ret'.op # "NewMockStore"
             => IsPrefix(mock.CreateBookCalledWith,
                         mock'.CreateBookCalledWith)]_vars

\* two calls with different arguments have been recorded, the later one last
C15_Witness ==
    /\ ret.op = "AddBook"
    /\ ret.store = "mock"
    /\ Len(mock.CreateBookCalledWith) = 2
    /\ mock.CreateBookCalledWith[1] # mock.CreateBookCalledWith[2]
    /\ mock.CreateBookCalledWith[2] = CalledWith(ret)

\* the last AddBook passed validation and its store's create failed
CreateFailed ==
    /\ ret.op = "AddBook"
    /\ ret.title # ""
    /\ ret.author # ""
    /\ ~StoreWorks

\* C16: when the store's create fails, AddBook returns a nil response and the
\* store's error wrapped with the context "add book": the chain starts with
\* "add book", the rest of it is the store's error as the store returned it,
\* and errors.Is still finds the cause (the driver's error under
\* "create book", or ErrMockNotImplemented).
C16_AddBookWrapsStoreError ==
    CreateFailed
        => /\ ret.resp.isNil
           /\ ret.err # NoError
           /\ Head(ret.err) = "add book"
           /\ ret.store = "db"
                  => /\ Tail(ret.err) = <<"create book", FaultErr(ret.fault)>>
                     /\ ErrorsIs(ret.err, FaultErr(ret.fault))
           /\ ret.store = "mock"
                  => /\ Tail(ret.err) = <<ErrMockNotImplemented>>
                     /\ ErrorsIs(ret.err, ErrMockNotImplemented)

\* an AddBook has failed on a cancelled context after rows were stored
C16_Witness ==
    /\ CreateFailed
    /\ ret.fault = "canceled"
    /\ ErrorsIs(ret.err, ErrCanceled)
    /\ db.books # {}

\* C17: GetBook hands the ID of its request to the store's get-by-id. When
\* no row has that ID its error begins with "get book" and errors.Is still
\* finds sql.ErrNoRows in it; every other store error comes back wrapped the
\* same way with a nil response; and on success the Book of the response is
\* the very book the store returns for that ID.
C17_GetBookDelegates ==
    ret.op = "GetBook"
        => /\ ret.store = "db"
                  => LET s == LibraryStore_GetBookByID(db, ret.id, ret.fault)
                     IN  /\ s.err = NoError
                               => /\ ret.err = NoError
                                  /\ ret.resp.Book = s.book
                                  /\ ret.resp.Book.ID = ret.id
                         /\ s.err # NoError
                               => /\ ret.resp.isNil
                                  /\ ret.err = Wrap("get book", s.err)
                         /\ (ret.fault = "none" /\ SelectByID(db, ret.id) = {})
                               => /\ Head(ret.err) = "get book"
                                  /\ ErrorsIs(ret.err, ErrNoRows)
           /\ ret.store = "mock"
                  => /\ ret.resp.isNil
                     /\ ret.err = Wrap("get book",
                                       mockStore_GetBookByID(mock, ret.id).err)

\* a GetBook has asked a table that holds rows for an ID that none of them has
C17_Witness ==
    /\ ret.op = "GetBook"
    /\ ret.store = "db"
    /\ ret.fault = "none"
    /\ db.books # {}
    /\ SelectByID(db, ret.id) = {}
    /\ ErrorsIs(ret.err, ErrNoRows)

\* the static description with which each operation wraps an error
Description(op) ==
    CASE op \in {"CreateBook", "CreateBookInPlace"} -> "create book"
      [] op = "DeleteBook" -> "delete book"
      [] op = "GetBookByID" -> "get book by id"
      [] op = "GetBooks" -> "get books"
      [] op = "AddBook" -> "add book"
      [] op = "GetBook" -> "get book"
      [] op = "ServiceGetBooks" -> "get books"
      [] OTHER -> "-"

StoreOps ==
    {"CreateBook", "CreateBookInPlace", "DeleteBook", "GetBookByID", "GetBooks"}

\* the last operation called the layer below it
CalledLower == ret.op \in StoreOps \/ ret.calls = 1

\* the layer below the last operation reported a failure
LowerFailed ==
    /\ CalledLower
    /\ \/ ret.fault # "none"
       \/ ret.iter # "none"
       \/ ret.store = "mock" /\ (ret.op = "AddBook" => mock.CreateBookFn = "nil")

\* C18: an error returned by a store operation that called the database, or
\* by a service operation that called the store, is the lower layer's error
\* under the operation's static description, the cause still in the chain;
\* and no failure of the lower layer is turned into a success.
C18_ErrorsWrapped ==
    /\ (CalledLower /\ ret.err # NoError)
          => /\ Head(ret.err) = Description(ret.op)
             /\ Len(ret.err) >= 2
             /\ (ret.op \notin StoreOps /\ ret.store = "db")
                    => /\ Len(ret.err) = 3
                       /\ ret.err[2] \in {Description(o) : o \in StoreOps}
             /\ ret.fault # "none" => ErrorsIs(ret.err, FaultErr(ret.fault))
    /\ LowerFailed => ret.err # NoError

ServiceOps == {"AddBook", "GetBook", "ServiceGetBooks"}

\* C19: one call of a service operation invokes its store operation at most
\* once: at most one entry joins the mock's log and at most one INSERT
\* advances books_id_seq. When that one invocation returns an error the
\* service returns an error at once, and nothing a second attempt would have
\* stored is there.
C19_NoRetry ==
    [][ret'.op \in ServiceOps
          => /\ ret'.calls <= 1
             /\ Len(mock'.CreateBookCalledWith)
                    <= Len(mock.CreateBookCalledWith) + 1
             /\ db'.books_id_seq <= db.books_id_seq + 1
             /\ (/\ ret'.calls = 1
                 /\ \/ ret'.fault # "none"
                    \/ ret'.iter = "scan_err"
                    \/ /\ ret'.store = "mock"
                       /\ ret'.op = "AddBook" => mock.CreateBookFn = "nil")
                    => /\ ret'.err # NoError
                       /\ db' = db
                       /\ mock' = mock]_vars

\* an AddBook has failed on a lost connection, after one that stored a row
C19_Witness ==
    /\ ret.op = "AddBook"
    /\ ret.calls = 1
    /\ ret.fault = "bad_conn"
    /\ ret.err # NoError
    /\ db.books # {}

\* C20: AddBook logs one event when it succeeds and none when it fails, in
\* validation or in the store; GetBook and GetBooks never log.
C20_LogOncePerAdd ==
    /\ ret.op = "AddBook"
          => /\ ret.err = NoError => ret.logged = 1
             /\ ret.err # NoError => ret.logged = 0
    /\ ret.op \in {"GetBook", "ServiceGetBooks"} => ret.logged = 0
    /\ ret.logged \in {0, 1}

\* an AddBook has failed in its store, after validation, and logged nothing
C20_Witness ==
    /\ CreateFailed
    /\ ret.calls = 1
    /\ ret.logged = 0

\* C21: AddBook checks Title first, then Author, and both before the store:
\* with Title empty (Author empty or not) the error is the title message,
\* with only Author empty it is the author message, and in both cases the
\* store has not been called: its database and the mock's log are untouched.
C21_TitleBeforeAuthor ==
    [][ret'.op = "AddBook"
          => /\ ret'.title = ""
                    => /\ ret'.err = <<"add book: title can't be blank">>
                       /\ ret'.calls = 0
                       /\ db' = db
                       /\ mock' = mock
             /\ (ret'.title # "" /\ ret'.author = "")
                    => /\ ret'.err = <<"add book: author can't be blank">>
                       /\ ret'.calls = 0
                       /\ db' = db
                       /\ mock' = mock]_vars

\* an AddBook with both fields empty has failed on its title
C21_Witness ==
    /\ ret.op = "AddBook"
    /\ ret.title = ""
    /\ ret.author = ""
    /\ ret.err = <<ErrTitleBlank>>
    /\ ret.calls = 0

\* C22: in a suite with a TestMain the shared handle is open whenever a test
\* function or a cleanup runs, and when the process has exited after running
\* the suite the handle has been closed, exactly once.
C22_ConnectionLifecycle ==
    main.variant \in {"close", "defer"}
        => /\ t.pc \in {"body", "defers", "cleanups"} => conn.state = "open"
           /\ (main.pc = "exited" /\ conn.state # "unopened")
                  => conn.state = "closed" /\ conn.closes = 1
           /\ conn.closes <= 1

\* C23: when a test that registers the deletion of the books it creates has
\* finished, cleanups included, none of the rows it created is in the table.
C23_TestLeavesNoRows ==
    (t.pc = "done" /\ Registers(t.name))
        => \A r \in db.books : r.id \notin t.made

\* the ids in a sequence of ids
Range(ids) == {ids[i] : i \in 1 .. Len(ids)}

\* C30: a function registered with MustCleanup runs after the test function
\* has returned (and its deferred calls have run), once and no more. When it
\* returns an error the error is logged and the outcome of the test stays
\* what it was; when it returns nil nothing is logged.
C30_MustCleanupRunsOnce ==
    [][/\ Len(t'.ran) = Len(t.ran) + 1
             => /\ t.pc = "cleanups"
                /\ t'.ran = Append(t.ran, t.cleanups[Len(t.cleanups)])
                /\ t.cleanups[Len(t.cleanups)] \notin Range(t.ran)
                /\ t'.cleanups = SubSeq(t.cleanups, 1, Len(t.cleanups) - 1)
                /\ t'.failed = t.failed
                /\ t'.logs
                     = IF conn.state = "open" THEN t.logs
                       ELSE Append(t.logs,
                                   <<"failed to clean up after test:",
                                     "delete book", ErrDBClosed>>)
       /\ t'.pc = "done"
             => /\ t'.cleanups = <<>>
                /\ Len(t'.ran) = Cardinality(Range(t'.ran))
                /\ Registers(t'.name) => Range(t'.ran) = t'.made
                /\ ~Registers(t'.name) => t'.ran = <<>>
       /\ t'.pc \in {"body", "defers"} => t'.ran = <<>>]_vars

\* a test has finished whose cleanup failed: the failure is in its log and
\* the test has not failed
C30_Witness ==
    /\ t.pc = "done"
    /\ t.ran = <<1>>
    /\ Len(t.logs) = 1
    /\ ~t.failed

\* C24: when GetBookByID or GetBooks has returned, on success, after a failed
\* query or after a failed Scan in the middle of the rows, the rows its query
\* opened are closed; between reads no rows are open.
C24_RowsReleased ==
    stmt.pc \in {"returned", "idle"} => stmt.rows # "open"

\* GetBooks has returned the error of a Scan that failed on the second of
\* two rows, and the rows it left behind in the loop are closed
C24_Witness ==
    /\ stmt.op = "GetBooks"
    /\ stmt.pc = "returned"
    /\ stmt.iter = "scan_err"
    /\ stmt.i = 1
    /\ stmt.err # NoError
    /\ stmt.rows = "closed"

\* C25: from any table and for any Title and Author, CreateBook taking the
\* fields and returning a new book and CreateBook taking a book and setting
\* its ID fail together or succeed together, with the same error, leave the
\* same table, and on success yield a book with the same ID, Title and
\* Author; the in-place one leaves Title and Author of its book alone,
\* whether it succeeds or fails.
C25_CreateBookVariantsAgree ==
    [][/\ ret'.op = "CreateBook"
             => LET b == LibraryStore_CreateBookInPlace(
                             db, Book(0, ret'.title, ret'.author), ret'.fault)
                IN  /\ b.err = ret'.err
                    /\ b.db = db'
                    /\ ret'.err = NoError => b.book = ret'.book
       /\ ret'.op = "CreateBookInPlace"
             => LET a == LibraryStore_CreateBook(db, ret'.title, ret'.author,
                                                 ret'.fault)
                IN  /\ a.err = ret'.err
                    /\ a.db = db'
                    /\ ret'.err = NoError => a.book = ret'.book
                    /\ ret'.book.Title = ret'.title
                    /\ ret'.book.Author = ret'.author]_vars

\* the in-place CreateBook has given the second row to a book that
\* came with an ID of its own
C25_Witness ==
    /\ ret.op = "CreateBookInPlace"
    /\ ret.id = 1
    /\ ret.err = NoError
    /\ ret.book = Book(2, "Emma", "Frank Herbert")
    /\ Cardinality(db.books) = 2

\* C26: a DeleteBook(id) that returns no error has removed the row with that
\* id, if there was one, and nothing else: every other row is as it was and
\* the sequence is untouched. From then on GetBookByID / GetBook of that id
\* fail with sql.ErrNoRows when the database answers, and no GetBooks returns
\* a book with that id.
C26_DeleteRemovesOnlyItsRow ==
    [][/\ (ret'.op = "DeleteBook" /\ ret'.err = NoError)
             => /\ db'.books = {r \in db.books : r.id # ret'.id}
                /\ db'.books_id_seq = db.books_id_seq
                /\ deleted' = deleted \cup {r.id : r \in SelectByID(db, ret'.id)}
                /\ LET got == LibraryStore_GetBookByID(db', ret'.id, "none")
                   IN  got.book.isNil /\ ErrorsIs(got.err, ErrNoRows)
                /\ \A b \in Range(LibraryStore_GetBooks(db', "none", "none",
                                                        0).books.elems) :
                       b.ID # ret'.id
       /\ (ret'.op \in {"GetBookByID", "GetBook"} /\ ret'.store = "db"
             /\ ret'.id \in deleted')
             => /\ ret'.err # NoError
                /\ ret'.fault = "none" => ErrorsIs(ret'.err, ErrNoRows)
       /\ (ret'.op \in {"GetBooks", "ServiceGetBooks"} /\ ret'.store = "db"
             /\ ret'.err = NoError)
             => \A b \in Range((IF ret'.op = "GetBooks" THEN ret'.books
                                ELSE ret'.resp.Books).elems) :
                    b.ID \notin deleted']_vars

\* the first of two stored books has been deleted and the second is there
C26_Witness ==
    /\ ret.op = "DeleteBook"
    /\ ret.id = 1
    /\ ret.err = NoError
    /\ deleted = {1}
    /\ db.books = {Row(2, "Emma", "Frank Herbert")}

Reads == {"GetBookByID", "GetBooks", "GetBook", "ServiceGetBooks"}

\* C27: GetBookByID and GetBooks, and GetBook and GetBooks of the service,
\* leave the rows of the table and the sequence as they found them, whether
\* they return an error or not; so the write that follows produces what it
\* would have produced without the read: the same book, id and table for
\* every create, the same table for every delete.
C27_ReadsChangeNothing ==
    [][ret'.op \in Reads
          => /\ db'.books = db.books
             /\ db'.books_id_seq = db.books_id_seq
             /\ mock' = mock
             /\ \A title \in Titles, author \in Authors :
                    LibraryStore_CreateBook(db', title, author, "none")
                        = LibraryStore_CreateBook(db, title, author, "none")
             /\ \A id \in IDs :
                    LibraryStore_DeleteBook(db', id, "none")
                        = LibraryStore_DeleteBook(db, id, "none")]_vars

\* a GetBooks has broken off in the middle of two stored rows
C27_Witness ==
    /\ ret.op = "GetBooks"
    /\ ret.iter = "scan_err"
    /\ ret.k = 1
    /\ ret.err # NoError
    /\ Cardinality(db.books) = 2
    /\ db.books_id_seq = 2

\* C28: however the CreateBook calls of the goroutines interleave, the ids
\* the successful calls have received are non-zero and pairwise different,
\* every book a call has returned is stored under its id with the Title and
\* Author that call was given, and no inserted row is lost: the table holds
\* one row per statement that inserted one.
C28_ConcurrentCreates ==
    /\ \A i \in 1 .. Len(created) : created[i].ID # 0
    /\ \A i, j \in 1 .. Len(created) :
          i # j => created[i].ID # created[j].ID
    /\ \A i \in 1 .. Len(created) :
          Row(created[i].ID, created[i].Title, created[i].Author) \in db.books
    /\ \A c \in Callers :
          (callers[c].pc = "returned" /\ callers[c].err = NoError)
              => /\ callers[c].book.Title = callers[c].title
                 /\ callers[c].book.Author = callers[c].author
                 /\ callers[c].book.ID = callers[c].val
    /\ \A c \in Callers :
          callers[c].pc \in {"scan", "return"}
              => Row(callers[c].val, callers[c].title, callers[c].author)
                    \in db.books
    /\ \A r, q \in db.books : r.id = q.id => r = q
    /\ Cardinality(db.books)
          = Len(created)
              + Cardinality({c \in Callers :
                                callers[c].pc \in {"scan", "return"}})

\* g1 drew its id first and g2 inserted first; both have returned, each with
\* its own book
C28_Witness ==
    /\ callers["g1"].pc = "returned"
    /\ callers["g2"].pc = "returned"
    /\ callers["g1"].book = Book(1, "Dune", "Frank Herbert")
    /\ callers["g2"].book = Book(2, "Emma", "Frank Herbert")
    /\ created = <<callers["g2"].book, callers["g1"].book>>

\* C29: a stored book stays what it was. No step other than the DeleteBook of
\* its own id removes or alters its row; and as long as a created book has
\* not been deleted, every GetBookByID / GetBook of its id that succeeds
\* returns exactly the book its create returned, every list a GetBooks
\* returns shows it, if at all, with that ID, Title and Author, and a
\* GetBooks whose rows arrive unbroken does show it.
C29_StoredBookStable ==
    [][/\ \A r \in db.books :
              ~(ret'.op = "DeleteBook" /\ ret'.id = r.id) => r \in db'.books
       /\ \A i \in 1 .. Len(created') :
              created'[i].ID \notin deleted'
                  => /\ Row(created'[i].ID, created'[i].Title,
                            created'[i].Author) \in db'.books
                     /\ (ret'.op = "GetBookByID" /\ ret'.err = NoError
                           /\ ret'.id = created'[i].ID)
                            => ret'.book = created'[i]
                     /\ (ret'.op = "GetBook" /\ ret'.err = NoError
                           /\ ret'.id = created'[i].ID)
                            => ret'.resp.Book = created'[i]
                     /\ (ret'.op \in {"GetBooks", "ServiceGetBooks"}
                           /\ ret'.err = NoError)
                            => LET got == IF ret'.op = "GetBooks"
                                              THEN ret'.books.elems
                                          ELSE ret'.resp.Books.elems
                               IN  /\ \A b \in Range(got) :
                                          b.ID = created'[i].ID
                                              => b = created'[i]
                                   /\ ret'.iter = "none"
                                          => created'[i] \in Range(got)]_vars

\* the second book has been created and deleted, and a GetBooks after that
\* returns the first as it was created
C29_Witness ==
    /\ ret.op = "GetBooks"
    /\ ret.err = NoError
    /\ ret.iter = "none"
    /\ deleted = {2}
    /\ Len(created) = 2
    /\ ret.books.elems = <<created[1]>>

====
